---- MODULE Spec2Model ----
(***************************************************************************)
(* Model of telixCallHandler/calls.py: an AMI event listener that maps     *)
(* call-lifecycle events to JSON notifications and posts them to a local   *)
(* HTTP endpoint through a one-worker thread pool.                         *)
(*                                                                         *)
(* Strings that the program inspects or builds character by character are  *)
(* sequences of one-character strings.  Event kinds, field names and the   *)
(* handlers' names are atoms (TLA+ strings).                               *)
(***************************************************************************)
EXTENDS Integers, Sequences, FiniteSets, TLC

(***************************************************************************)
(* Bounds of the model.                                                    *)
(***************************************************************************)
\* number of events the session delivers in one run
MaxEvents == 3

(***************************************************************************)
(* String literals of calls.py.                                            *)
(***************************************************************************)
sRing == <<"R","i","n","g">>
sUp == <<"U","p">>
sFromTrunk == <<"f","r","o","m","-","t","r","u","n","k">>
sFromInternal == <<"f","r","o","m","-","i","n","t","e","r","n","a","l">>
sProviderPrefix == <<"S","I","P","/","S","i","p","g","a","t","e","_","-","2","6","1","5","5","1","0">>
sUnknown == <<"<","u","n","k","n","o","w","n",">">>
fmtIncoming1 == <<"{","\"","e","v","e","n","t","\"",":"," ","\"","I","n","c","o","m","i","n","g"," ","C","a","l","l","\"",","," ","\"","r","e","m","o","t","e","\"",":"," ","\"">>
fmtHangup1 == <<"{","\"","e","v","e","n","t","\"",":"," ","\"","H","a","n","g","u","p","\"",","," ","\"","c","a","l","l","i","d","\"",":"," ","\"">>
fmtAccept1 == <<"{","\"","e","v","e","n","t","\"",":"," ","\"","A","c","c","e","p","t","e","d"," ","C","a","l","l","\"",","," ","\"","c","a","l","l","i","d","\"",":"," ","\"">>
fmtOutgoing1 == <<"{","\"","e","v","e","n","t","\"",":"," ","\"","O","u","t","g","o","i","n","g"," ","C","a","l","l","\"",","," ","\"","c","a","l","l","i","d","\"",":"," ","\"">>
fmtTransfer1 == <<"{","\"","e","v","e","n","t","\"",":"," ","\"","T","r","a","n","s","f","e","r"," ","C","a","l","l","\"",","," ","\"","c","a","l","l","i","d","\"",":"," ","\"">>
fmtCallid == <<"\"",","," ","\"","c","a","l","l","i","d","\"",":"," ","\"">>
fmtDialed == <<"\"",","," ","\"","d","i","a","l","e","d","\"",":"," ","\"">>
fmtRemote == <<"\"",","," ","\"","r","e","m","o","t","e","\"",":"," ","\"">>
fmtUser == <<"\"",","," ","\"","u","s","e","r","\"",":"," ","\"">>
fmtNewuser == <<"\"",","," ","\"","n","e","w","u","s","e","r","\"",":"," ","\"">>
fmtEnd == <<"\"","}">>

(***************************************************************************)
(* str.lower and str.split(' ', 1)[0], as the handlers use them.           *)
(***************************************************************************)
UpperChars == <<"A","B","C","D","E","F","G","H","I","J","K","L","M","N","O","P","Q","R","S","T","U","V","W","X","Y","Z">>
LowerChars == <<"a","b","c","d","e","f","g","h","i","j","k","l","m","n","o","p","q","r","s","t","u","v","w","x","y","z">>

LowerChar(c) ==
    IF \E i \in 1..Len(UpperChars) : UpperChars[i] = c
    THEN LowerChars[CHOOSE i \in 1..Len(UpperChars) : UpperChars[i] = c]
    ELSE c

lower(s) == [i \in 1..Len(s) |-> LowerChar(s[i])]

\* s.split(sep, 1)[0]: the text before the first occurrence of the one
\* separator character sep, the whole of s when sep does not occur
RECURSIVE SplitScan(_, _, _)
SplitScan(s, sep, i) ==
    IF i > Len(s) THEN s
    ELSE IF s[i] = sep THEN SubSeq(s, 1, i - 1)
    ELSE SplitScan(s, sep, i + 1)

split_first(s, sep) == SplitScan(s, sep, 1)

whole_name_lower(name) == lower(name)

\* name.split(' ', 1)[0].lower()
first_word_lower(name) == lower(split_first(name, " "))

(***************************************************************************)
(* The two compiled patterns of the rule table, matched with search().     *)
(***************************************************************************)
\* re.compile('^SIP/Sipgate_-2615510.*').search(v): the literal at offset 0
re_provider_search(v) ==
    /\ Len(v) >= Len(sProviderPrefix)
    /\ SubSeq(v, 1, Len(sProviderPrefix)) = sProviderPrefix

\* re.compile('.{5,}').search(v): five consecutive characters, none of them
\* a line feed, starting anywhere in v
MinExtenLen == 5

re_exten_search(v) ==
    \E i \in 1..Len(v) :
        /\ i + MinExtenLen - 1 <= Len(v)
        /\ \A j \in i..(i + MinExtenLen - 1) : v[j] # "\n"

(***************************************************************************)
(* Events.  An event has a name (its kind) and keys, a mapping from the    *)
(* field names it carries to their values; event['F'] raises KeyError when *)
(* F is not among them.                                                    *)
(***************************************************************************)
Has(event, fields) == fields \subseteq DOMAIN event.keys

\* what a handler run amounts to: it either raised before calling send(),
\* or called send() once with the string it rendered
Raised == [raised |-> TRUE, sent |-> <<>>]
Sent(string) == [raised |-> FALSE, sent |-> <<string>>]

(***************************************************************************)
(* The five handlers.  The % operator renders the whole string before      *)
(* send() is called, so a missing field raises before anything is sent.    *)
(***************************************************************************)
on_incomming_call(event) ==
    IF Has(event, {"CallerIDNum", "Uniqueid", "Exten"})
    THEN Sent(fmtIncoming1 \o event.keys["CallerIDNum"]
              \o fmtCallid \o event.keys["Uniqueid"]
              \o fmtDialed \o event.keys["Exten"] \o fmtEnd)
    ELSE Raised

on_hangup(event) ==
    IF Has(event, {"Uniqueid", "CallerIDNum"})
    THEN Sent(fmtHangup1 \o event.keys["Uniqueid"]
              \o fmtRemote \o event.keys["CallerIDNum"] \o fmtEnd)
    ELSE Raised

on_accept(event) ==
    IF ~Has(event, {"ConnectedLineName"}) THEN Raised
    ELSE IF event.keys["ConnectedLineName"] = sUnknown
    THEN IF Has(event, {"Uniqueid", "CallerIDNum", "Exten"})
         THEN Sent(fmtAccept1 \o event.keys["Uniqueid"]
                   \o fmtRemote \o event.keys["CallerIDNum"]
                   \o fmtDialed \o event.keys["Exten"] \o fmtEnd)
         ELSE Raised
    ELSE IF Has(event, {"Uniqueid", "CallerIDNum", "Exten"})
         THEN Sent(fmtAccept1 \o event.keys["Uniqueid"]
                   \o fmtRemote \o event.keys["CallerIDNum"]
                   \o fmtDialed \o event.keys["Exten"]
                   \o fmtUser \o first_word_lower(event.keys["ConnectedLineName"])
                   \o fmtEnd)
         ELSE Raised

on_outgoing_call(event) ==
    IF Has(event, {"Uniqueid", "Exten", "CallerIDName"})
    THEN Sent(fmtOutgoing1 \o event.keys["Uniqueid"]
              \o fmtRemote \o event.keys["Exten"]
              \o fmtUser \o first_word_lower(event.keys["CallerIDName"])
              \o fmtEnd)
    ELSE Raised

on_transfer(event) ==
    IF Has(event, {"TransfereeUniqueid", "TransferTargetCallerIDName"})
    THEN Sent(fmtTransfer1 \o event.keys["TransfereeUniqueid"]
              \o fmtNewuser
              \o first_word_lower(event.keys["TransferTargetCallerIDName"])
              \o fmtEnd)
    ELSE Raised

Handlers == {"on_incomming_call", "on_outgoing_call", "on_hangup",
             "on_accept", "on_transfer"}

on_event(h, event) ==
    CASE h = "on_incomming_call" -> on_incomming_call(event)
      [] h = "on_outgoing_call"  -> on_outgoing_call(event)
      [] h = "on_hangup"         -> on_hangup(event)
      [] h = "on_accept"         -> on_accept(event)
      [] h = "on_transfer"       -> on_transfer(event)

(***************************************************************************)
(* The rule table: the EventListener objects in the order the program      *)
(* registers them.  An attribute rule is a literal (compared with ==) or a *)
(* compiled pattern (applied with search()).                               *)
(***************************************************************************)
Lit(v) == [type |-> "str", val |-> v]
Pat(name) == [type |-> "re", re |-> name]

EventListeners ==
    [h \in Handlers |->
       CASE h = "on_incomming_call" ->
              [white_list |-> "Newstate",
               assert_attrs |-> [f \in {"ChannelStateDesc", "Context", "Channel"} |->
                    CASE f = "ChannelStateDesc" -> Lit(sRing)
                      [] f = "Context" -> Lit(sFromTrunk)
                      [] f = "Channel" -> Pat("provider")]]
         [] h = "on_outgoing_call" ->
              [white_list |-> "Newstate",
               assert_attrs |-> [f \in {"ChannelStateDesc", "Context", "Exten"} |->
                    CASE f = "ChannelStateDesc" -> Lit(sRing)
                      [] f = "Context" -> Lit(sFromInternal)
                      [] f = "Exten" -> Pat("exten")]]
         [] h = "on_hangup" ->
              [white_list |-> "Hangup",
               assert_attrs |-> [f \in {"Context"} |-> Lit(sFromTrunk)]]
         [] h = "on_accept" ->
              [white_list |-> "Newstate",
               assert_attrs |-> [f \in {"Context", "ChannelStateDesc"} |->
                    CASE f = "Context" -> Lit(sFromTrunk)
                      [] f = "ChannelStateDesc" -> Lit(sUp)]]
         [] h = "on_transfer" ->
              [white_list |-> "AttendedTransfer",
               assert_attrs |-> [f \in {} |-> Lit(<<>>)]]]

RegistrationOrder ==
    <<"on_incomming_call", "on_outgoing_call", "on_hangup", "on_accept",
      "on_transfer">>

(***************************************************************************)
(* EventListener.__call__: the listener calls its handler when the event's *)
(* name is the white-listed one and every attribute rule accepts the       *)
(* event's value for its field.                                            *)
(***************************************************************************)
check_white_list_inverted(listener, name) == name # listener.white_list

check_event_name(listener, name) == name = listener.white_list

check_attribute(rule, value) ==
    IF rule.type = "str" THEN rule.val = value
    ELSE IF rule.re = "provider" THEN re_provider_search(value)
    ELSE re_exten_search(value)

\* the outcome of an attribute rule on an event that does not carry the field
AbsentAttributeAccepted == FALSE

check_attributes_any(listener, event) ==
    \E f \in DOMAIN listener.assert_attrs :
        IF f \in DOMAIN event.keys
        THEN check_attribute(listener.assert_attrs[f], event.keys[f])
        ELSE AbsentAttributeAccepted

check_attributes(listener, event) ==
    \A f \in DOMAIN listener.assert_attrs :
        IF f \in DOMAIN event.keys
        THEN check_attribute(listener.assert_attrs[f], event.keys[f])
        ELSE AbsentAttributeAccepted

listener_accepts(h, event) ==
    /\ check_event_name(EventListeners[h], event.name)
    /\ check_attributes(EventListeners[h], event)

(***************************************************************************)
(* Field values of the events the session delivers in the model.           *)
(***************************************************************************)
sDown == <<"D","o","w","n">>
chanSipgate == <<"S","I","P","/","S","i","p","g","a","t","e","_","-","2","6","1","5","5","1","0","-","0","0","a","1">>
chanExact == <<"S","I","P","/","S","i","p","g","a","t","e","_","-","2","6","1","5","5","1","0">>
chanShort == <<"S","I","P","/","S","i","p","g","a","t","e","_","-","2","6","1","5","5","1">>
chanShifted == <<"x","S","I","P","/","S","i","p","g","a","t","e","_","-","2","6","1","5","5","1","0">>
chanOther == <<"S","I","P","/","o","t","h","e","r","-","0","1">>
numA == <<"+","4","9","1","7","0","1","2","3","4","5","6","7">>
numQuote == <<"+","4","9","\"","1">>
uidA == <<"1","7","0","0","0","0","0","0","0","0",".","1","2">>
uidB == <<"1","7","0","0","0","0","0","0","0","1",".","7">>
ext100 == <<"1","0","0">>
ext1234 == <<"1","2","3","4">>
ext12345 == <<"1","2","3","4","5">>
ext123456 == <<"1","2","3","4","5","6">>
nameJaneDoe == <<"J","a","n","e"," ","D","o","e">>
nameJane == <<"j","a","n","e">>
nameBob == <<"B","o","b"," ","S","m","i","t","h"," ","E","x","t","r","a">>
nameQuote == <<"O","\"","N","e","i","l"," ","X">>

Event(name, keys) == [name |-> name, keys |-> keys]
NoKeys == [f \in {} |-> <<>>]
NoEvent == Event("", NoKeys)

\* the events of the concurrency model: for every rule one event it accepts,
\* events it rejects on each of its conditions, and matching events that lack
\* a field their handler reads
SessionEvents ==
    { Event("Newstate", ("ChannelStateDesc" :> sRing) @@ ("Context" :> sFromTrunk)
                @@ ("Channel" :> chanSipgate) @@ ("CallerIDNum" :> numA)
                @@ ("Exten" :> ext100) @@ ("Uniqueid" :> uidA)),
      Event("Newstate", ("ChannelStateDesc" :> sRing) @@ ("Context" :> sFromTrunk)
                @@ ("Channel" :> chanOther) @@ ("CallerIDNum" :> numA)
                @@ ("Exten" :> ext100) @@ ("Uniqueid" :> uidA)),
      Event("Newstate", ("ChannelStateDesc" :> sRing) @@ ("Context" :> sFromInternal)
                @@ ("Exten" :> ext12345) @@ ("CallerIDName" :> nameJaneDoe)
                @@ ("Uniqueid" :> uidB)),
      Event("Newstate", ("ChannelStateDesc" :> sRing) @@ ("Context" :> sFromInternal)
                @@ ("Exten" :> ext1234) @@ ("CallerIDName" :> nameJaneDoe)
                @@ ("Uniqueid" :> uidB)),
      Event("Newstate", ("ChannelStateDesc" :> sRing) @@ ("Context" :> sFromInternal)
                @@ ("Exten" :> ext12345) @@ ("Uniqueid" :> uidB)),
      Event("Hangup", ("Context" :> sFromTrunk) @@ ("Uniqueid" :> uidA)
                @@ ("CallerIDNum" :> numA)),
      Event("Hangup", ("Context" :> sFromTrunk) @@ ("Uniqueid" :> uidA)),
      Event("Hangup", ("Context" :> sFromInternal) @@ ("Uniqueid" :> uidB)
                @@ ("CallerIDNum" :> numA)),
      Event("Hangup", ("Uniqueid" :> uidA) @@ ("CallerIDNum" :> numA)),
      Event("Newstate", ("ChannelStateDesc" :> sUp) @@ ("Context" :> sFromTrunk)
                @@ ("Uniqueid" :> uidA) @@ ("CallerIDNum" :> numA)
                @@ ("Exten" :> ext100) @@ ("ConnectedLineName" :> nameJaneDoe)),
      Event("Newstate", ("ChannelStateDesc" :> sUp) @@ ("Context" :> sFromTrunk)
                @@ ("Uniqueid" :> uidA) @@ ("CallerIDNum" :> numA)
                @@ ("Exten" :> ext100) @@ ("ConnectedLineName" :> sUnknown)),
      Event("Newstate", ("ChannelStateDesc" :> sUp) @@ ("Context" :> sFromTrunk)
                @@ ("Uniqueid" :> uidA) @@ ("CallerIDNum" :> numA)
                @@ ("Exten" :> ext100)),
      Event("Newstate", ("ChannelStateDesc" :> sDown) @@ ("Context" :> sFromTrunk)
                @@ ("Channel" :> chanSipgate) @@ ("Uniqueid" :> uidA)),
      Event("AttendedTransfer", ("TransfereeUniqueid" :> uidA) @@ ("Uniqueid" :> uidB)
                @@ ("TransferTargetCallerIDName" :> nameBob)),
      Event("AttendedTransfer", ("Uniqueid" :> uidB)),
      Event("VarSet", ("Context" :> sFromTrunk) @@ ("Uniqueid" :> uidA)) }

(***************************************************************************)
(* State.                                                                  *)
(***************************************************************************)
VARIABLES
    mainpc,      \* main thread: "login", "register", "idle", "aborted"
    response,    \* future.response of the login: "none", "success", "error"
    listeners,   \* client._event_listeners: handlers' names, in registration order
    lpc,         \* the client's receive thread: "off", "idle", "dispatching", "dead"
    cur,         \* the event being dispatched
    idx,         \* position of the dispatch in listeners
    invoked,     \* handler -> number of calls of it for cur
    produced,    \* number of send() calls made for cur
    nEvents,     \* events received so far
    queue,       \* the executor's work queue: <<id, string>> entries
    running,     \* entries whose send_bg is in progress
    nSent,       \* number of send() calls so far; the id of the latest entry
    posted,      \* ids in the order requests.post was called for them
    result       \* id -> how its send_bg ended

vars == <<mainpc, response, listeners, lpc, cur, idx, invoked, produced, nEvents,
          queue, running, nSent, posted, result>>

mainVars == <<mainpc, response, listeners>>
dispatchVars == <<lpc, cur, idx, invoked, produced, nEvents>>
poolVars == <<queue, running, posted, result>>

NoCalls == [h \in Handlers |-> 0]

Init ==
    /\ mainpc = "login"
    /\ response = "none"
    /\ listeners = <<>>
    /\ lpc = "off"
    /\ cur = NoEvent
    /\ idx = 0
    /\ invoked = NoCalls
    /\ produced = 0
    /\ nEvents = 0
    /\ queue = <<>>
    /\ running = {}
    /\ nSent = 0
    /\ posted = <<>>
    /\ result = [i \in {} |-> ""]

(***************************************************************************)
(* Main thread: login, then the five add_event_listener calls, then the    *)
(* idle loop.                                                              *)
(***************************************************************************)
login_unchecked(r) == "register"

\* if future.response.is_error(): raise Exception(...); the exception ends
\* the main thread before the first add_event_listener
after_login(r) == IF r = "error" THEN "aborted" ELSE "register"

\* client.login(**login) starts the client's receive thread and returns the
\* future of the login response
LoginOk ==
    /\ mainpc = "login"
    /\ response' = "success"
    /\ mainpc' = after_login("success")
    /\ lpc' = "idle"
    /\ UNCHANGED <<listeners, cur, idx, invoked, produced, nEvents, nSent>>
    /\ UNCHANGED poolVars

LoginError ==
    /\ mainpc = "login"
    /\ response' = "error"
    /\ mainpc' = after_login("error")
    /\ lpc' = "idle"
    /\ UNCHANGED <<listeners, cur, idx, invoked, produced, nEvents, nSent>>
    /\ UNCHANGED poolVars

\* one client.add_event_listener(EventListener(...)) statement
add_event_listener ==
    /\ mainpc = "register"
    /\ listeners' = Append(listeners, RegistrationOrder[Len(listeners) + 1])
    /\ mainpc' = IF Len(listeners) + 1 = Len(RegistrationOrder)
                 THEN "idle" ELSE "register"
    /\ UNCHANGED <<response, dispatchVars, nSent>>
    /\ UNCHANGED poolVars

(***************************************************************************)
(* The executor: ThreadPoolExecutor(max_workers=1).  submit() appends a    *)
(* work item to an unbounded FIFO queue and returns; a free worker takes   *)
(* the oldest item and runs send_bg on it.                                 *)
(***************************************************************************)
max_workers == 1

\* whether submit() has to wait before it returns
submit_waits_for_worker(q, r) == r # {}

submit_waits(q, r) == FALSE

send_shedding(q, n, string) ==
    IF Len(q) >= 1 THEN q ELSE Append(q, <<n + 1, string>>)

send_numbered(q, n, string) ==
    LET count == [i \in 1..n |-> "i"]
    IN  Append(q, <<n + 1, string \o <<"#">> \o count>>)

\* send(string): print, then executor.submit(send_bg, string)
send(q, n, string) == Append(q, <<n + 1, string>>)

\* position in the queue of the item a free worker takes
newest_item(q) == Len(q)

next_item(q) == 1

Without(q, i) == SubSeq(q, 1, i - 1) \o SubSeq(q, i + 1, Len(q))

\* how requests.post can end: a response with a success status, a response
\* with any other status, or an exception; it may also never end
PostOutcomes == {"2xx", "non2xx", "raised"}

Failure(o) == o \in {"non2xx", "raised"}

\* what send_bg leaves in the queue when its post has ended: it prints the
\* status or the exception and returns, the item is gone
retry_first(q, item, o) == IF Failure(o) THEN <<item>> \o q ELSE q

retry_last(q, item, o) == IF Failure(o) THEN Append(q, item) ELSE q

after_send_bg(q, item, o) == q

(***************************************************************************)
(* The client's receive thread: for each event, call every registered      *)
(* listener in registration order.                                         *)
(***************************************************************************)
Receive(e) ==
    /\ lpc = "idle"
    /\ nEvents < MaxEvents
    /\ lpc' = "dispatching"
    /\ cur' = e
    /\ idx' = 1
    /\ invoked' = NoCalls
    /\ produced' = 0
    /\ nEvents' = nEvents + 1
    /\ UNCHANGED <<mainVars, nSent>>
    /\ UNCHANGED poolVars

\* the listener at idx rejects the event
ListenerSkips ==
    /\ lpc = "dispatching"
    /\ idx <= Len(listeners)
    /\ ~listener_accepts(listeners[idx], cur)
    /\ idx' = idx + 1
    /\ UNCHANGED <<mainVars, lpc, cur, invoked, produced, nEvents, nSent>>
    /\ UNCHANGED poolVars

\* the listener at idx accepts the event and its handler sends a notification
HandlerSends ==
    /\ lpc = "dispatching"
    /\ idx <= Len(listeners)
    /\ listener_accepts(listeners[idx], cur)
    /\ LET h == listeners[idx]
           r == on_event(h, cur)
       IN  /\ ~r.raised
           /\ ~submit_waits(queue, running)
           /\ invoked' = [invoked EXCEPT ![h] = @ + 1]
           /\ queue' = send(queue, nSent, r.sent[1])
           /\ nSent' = nSent + 1
           /\ produced' = produced + 1
           /\ idx' = idx + 1
    /\ UNCHANGED <<mainVars, lpc, cur, nEvents, running, posted, result>>

\* the listener at idx accepts the event and its handler raises KeyError:
\* nothing in calls.py catches it, it leaves the handler and ends the loop
\* of the thread that called it
HandlerRaises ==
    /\ lpc = "dispatching"
    /\ idx <= Len(listeners)
    /\ listener_accepts(listeners[idx], cur)
    /\ LET h == listeners[idx]
           r == on_event(h, cur)
       IN  /\ r.raised
           /\ invoked' = [invoked EXCEPT ![h] = @ + 1]
           /\ lpc' = "dead"
    /\ UNCHANGED <<mainVars, cur, idx, produced, nEvents, nSent>>
    /\ UNCHANGED poolVars

\* every listener has seen the event
DispatchDone ==
    /\ lpc = "dispatching"
    /\ idx > Len(listeners)
    /\ lpc' = "idle"
    /\ cur' = NoEvent
    /\ idx' = 0
    /\ invoked' = NoCalls
    /\ produced' = 0
    /\ UNCHANGED <<mainVars, nEvents, nSent>>
    /\ UNCHANGED poolVars

(***************************************************************************)
(* The pool's worker.                                                      *)
(***************************************************************************)
\* a free worker takes an item and send_bg calls requests.post
WorkerStart ==
    /\ Cardinality(running) < max_workers
    /\ queue # <<>>
    /\ LET i == next_item(queue)
       IN  /\ running' = running \cup {queue[i]}
           /\ posted' = Append(posted, queue[i][1])
           /\ queue' = Without(queue, i)
    /\ UNCHANGED <<mainVars, dispatchVars, nSent, result>>

\* requests.post ends and send_bg returns
WorkerFinish(item, o) ==
    /\ item \in running
    /\ running' = running \ {item}
    /\ result' = (item[1] :> o) @@ result
    /\ queue' = after_send_bg(queue, item, o)
    /\ UNCHANGED <<mainVars, dispatchVars, nSent, posted>>

Next ==
    \/ LoginOk
    \/ LoginError
    \/ add_event_listener
    \/ \E e \in SessionEvents : Receive(e)
    \/ ListenerSkips
    \/ HandlerSends
    \/ HandlerRaises
    \/ DispatchDone
    \/ WorkerStart
    \/ \E item \in running, o \in PostOutcomes : WorkerFinish(item, o)

Spec == Init /\ [][Next]_vars

(***************************************************************************)
(* Properties of dispatch.                                                 *)
(***************************************************************************)
Range(f) == {f[i] : i \in DOMAIN f}

\* the rules' conditions, read off the rule table: the event is of the rule's
\* kind, carries every field the rule names, and the field's value equals the
\* literal, begins with the provider prefix, or has five characters or more
RuleKind(h) == EventListeners[h].white_list

PredicateHolds(h, f, event) ==
    /\ f \in DOMAIN event.keys
    /\ LET rule == EventListeners[h].assert_attrs[f]
           v == event.keys[f]
       IN  CASE rule.type = "str" -> v = rule.val
             [] rule.type = "re" /\ rule.re = "provider" ->
                  \E n \in 0..Len(v) : SubSeq(v, 1, n) = sProviderPrefix
             [] rule.type = "re" /\ rule.re = "exten" -> Len(v) >= 5

Satisfies(h, event) ==
    /\ event.name = RuleKind(h)
    /\ \A f \in DOMAIN EventListeners[h].assert_attrs : PredicateHolds(h, f, event)

\* the dispatch of cur is over: every listener has seen it, or a handler raised
DispatchComplete == lpc = "dispatching" /\ idx > Len(listeners)
DispatchOver == DispatchComplete \/ lpc = "dead"

\* C1: when the dispatch of an event is over, every registered rule whose kind
\* is the event's and whose field predicates all hold on the event has had its
\* handler called exactly once for that event; no handler is ever called twice
\* for one event.
C1_MatchInvokesOnce ==
    /\ \A h \in Handlers : invoked[h] <= 1
    /\ DispatchOver =>
         \A h \in Range(listeners) : Satisfies(h, cur) => invoked[h] = 1

C1_Witness ==
    /\ DispatchComplete
    /\ listeners = RegistrationOrder
    /\ \E h \in Handlers : Satisfies(h, cur) /\ invoked[h] = 1 /\ produced = 1

\* C2: a rule whose kind differs from the event's, or one of whose field
\* predicates fails on the event (the field being absent included), never has
\* its handler called for that event; an event that satisfies no rule sends
\* nothing and does not end the dispatch loop.
C2_NoMatchNoCall ==
    /\ \A h \in Handlers : ~Satisfies(h, cur) => invoked[h] = 0
    /\ (\A h \in Handlers : ~Satisfies(h, cur)) => produced = 0 /\ lpc # "dead"

C2_Witness ==
    /\ DispatchComplete
    /\ listeners = RegistrationOrder
    /\ \A h \in Handlers : ~Satisfies(h, cur) /\ invoked[h] = 0
    /\ \E h \in Handlers :
          /\ cur.name = RuleKind(h)
          /\ \E f \in DOMAIN EventListeners[h].assert_attrs : f \notin DOMAIN cur.keys
    /\ produced = 0

(***************************************************************************)
(* Properties of delivery.                                                 *)
(***************************************************************************)
Ids(items) == {item[1] : item \in items}

\* C3: at most one send_bg is in progress, and requests.post is called for
\* the payloads in the order send() submitted them: the k-th post is for the
\* k-th submitted payload and the queue holds the later ones in order.
C3_SerializedInOrder ==
    /\ Cardinality(running) <= 1
    /\ \A k \in 1..Len(posted) : posted[k] = k
    /\ \A k \in 1..Len(queue) : queue[k][1] = Len(posted) + k
    /\ Len(posted) + Len(queue) = nSent

C3_Witness ==
    /\ Len(posted) = 2
    /\ Ids(running) = {2}
    /\ Len(queue) = 1
    /\ 1 \in DOMAIN result

\* C4: when the delivery of payload i has failed (exception or non-success
\* status) and payload i+1 has been submitted, payload i+1 has been attempted
\* or is the next item the worker takes, and the worker can take it.
C4_FailureDoesNotBlockNext ==
    \A i \in DOMAIN result :
        (Failure(result[i]) /\ i < nSent) =>
            \/ i + 1 \in Range(posted)
            \/ /\ queue # <<>>
               /\ queue[1][1] = i + 1
               /\ ENABLED WorkerStart

C4_Witness ==
    \E i \in DOMAIN result :
        /\ result[i] = "raised"
        /\ i + 1 \in Ids(running)

\* C5: the receive thread never waits for the pool: while an event is being
\* dispatched the next step of the dispatch is enabled, and while the thread
\* is idle the next event can be received, whatever is queued or in progress.
C5_EventPathNeverBlocked ==
    /\ lpc = "dispatching" =>
         ENABLED (ListenerSkips \/ HandlerSends \/ HandlerRaises \/ DispatchDone)
    /\ (lpc = "idle" /\ nEvents < MaxEvents) =>
         ENABLED (\E e \in SessionEvents : Receive(e))

C5_Witness ==
    /\ lpc = "dispatching"
    /\ produced = 1
    /\ Ids(running) = {1}
    /\ Ids(Range(queue)) = {2, 3}

\* C6: when an event matches a rule and lacks a field the handler reads, no
\* payload is enqueued for it and the dispatch loop goes on.
C6_MissingFieldSkipped ==
    \A h \in Handlers :
        (invoked[h] = 1 /\ on_event(h, cur).raised) =>
            produced = 0 /\ lpc # "dead"

\* C7: no payload is posted twice, there are never more posts than send()
\* calls, and a payload whose attempt has ended is neither queued nor in
\* progress again.
C7_NoRetry ==
    /\ \A j, k \in 1..Len(posted) : posted[j] = posted[k] => j = k
    /\ Len(posted) <= nSent
    /\ \A i \in DOMAIN result : i \notin Ids(Range(queue)) \cup Ids(running)

C7_Witness ==
    /\ nSent = 2
    /\ DOMAIN result = {1, 2}
    /\ Failure(result[1]) /\ Failure(result[2])
    /\ Len(posted) = 2
    /\ queue = <<>> /\ running = {}

(***************************************************************************)
(* The notification as its receiver reads it.  The body of the POST is the *)
(* string the handler rendered; the receiver reads it as a JSON object     *)
(* with string members.  ParseObject is that reading: the members of the   *)
(* object in order, or a failure when the text is not such an object.      *)
(***************************************************************************)
JsonSpace == {" ", "\t", "\n", "\r"}

NotJson == [ok |-> FALSE, members |-> <<>>]

RECURSIVE SkipSpace(_, _)
SkipSpace(s, i) ==
    IF i <= Len(s) /\ s[i] \in JsonSpace THEN SkipSpace(s, i + 1) ELSE i

\* the characters of a JSON string whose opening quote is before position i:
\* [ok, val, next], next being the position after the closing quote
RECURSIVE ScanString(_, _, _)
ScanString(s, i, acc) ==
    IF i > Len(s) THEN [ok |-> FALSE, val |-> acc, next |-> i]
    ELSE IF s[i] = "\"" THEN [ok |-> TRUE, val |-> acc, next |-> i + 1]
    ELSE IF s[i] = "\\"
         THEN IF i + 1 <= Len(s) /\ s[i + 1] \in {"\"", "\\", "/"}
              THEN ScanString(s, i + 2, Append(acc, s[i + 1]))
              ELSE [ok |-> FALSE, val |-> acc, next |-> i]
    ELSE IF s[i] \in {"\t", "\n", "\r"}
         THEN [ok |-> FALSE, val |-> acc, next |-> i]
    ELSE ScanString(s, i + 1, Append(acc, s[i]))

ParseString(s, i) ==
    IF i <= Len(s) /\ s[i] = "\"" THEN ScanString(s, i + 1, <<>>)
    ELSE [ok |-> FALSE, val |-> <<>>, next |-> i]

\* members from position i on, i being where a member's name is expected
RECURSIVE ParseMembers(_, _, _)
ParseMembers(s, i, acc) ==
    LET k == ParseString(s, SkipSpace(s, i))
        c == SkipSpace(s, k.next)
        v == ParseString(s, SkipSpace(s, c + 1))
        e == SkipSpace(s, v.next)
    IN  IF ~k.ok \/ c > Len(s) \/ s[c] # ":" THEN NotJson
        ELSE IF ~v.ok \/ e > Len(s) THEN NotJson
        ELSE IF s[e] = "," THEN ParseMembers(s, e + 1, Append(acc, <<k.val, v.val>>))
        ELSE IF s[e] = "}" /\ SkipSpace(s, e + 1) > Len(s)
             THEN [ok |-> TRUE, members |-> Append(acc, <<k.val, v.val>>)]
        ELSE NotJson

ParseObject(s) ==
    LET b == SkipSpace(s, 1)
    IN  IF b > Len(s) \/ s[b] # "{" THEN NotJson
        ELSE IF SkipSpace(s, b + 1) <= Len(s) /\ s[SkipSpace(s, b + 1)] = "}"
             THEN IF SkipSpace(s, SkipSpace(s, b + 1) + 1) > Len(s)
                  THEN [ok |-> TRUE, members |-> <<>>]
                  ELSE NotJson
        ELSE ParseMembers(s, b + 1, <<>>)

\* the notification is the object with exactly the members in fields (a set
\* of <<name, value>> pairs), each name once
IsPayload(s, fields) ==
    LET p == ParseObject(s)
    IN  /\ p.ok
        /\ Len(p.members) = Cardinality(fields)
        /\ Range(p.members) = fields

HasMember(s, name) ==
    LET p == ParseObject(s)
    IN  p.ok /\ \E m \in Range(p.members) : m[1] = name

kEvent == <<"e","v","e","n","t">>
kRemote == <<"r","e","m","o","t","e">>
kCallid == <<"c","a","l","l","i","d">>
kDialed == <<"d","i","a","l","e","d">>
kUser == <<"u","s","e","r">>
kNewuser == <<"n","e","w","u","s","e","r">>
vIncomingCall == <<"I","n","c","o","m","i","n","g"," ","C","a","l","l">>
vHangup == <<"H","a","n","g","u","p">>
vAcceptedCall == <<"A","c","c","e","p","t","e","d"," ","C","a","l","l">>
vOutgoingCall == <<"O","u","t","g","o","i","n","g"," ","C","a","l","l">>
vTransferCall == <<"T","r","a","n","s","f","e","r"," ","C","a","l","l">>

(***************************************************************************)
(* The handlers on their own: one event, taken from a larger set, is       *)
(* dispatched against the complete rule table.                             *)
(***************************************************************************)
valInject == <<"9","\"",","," ","\"","u","s","e","r","\"",":"," ","\"","x">>
nameUnknownPlain == <<"u","n","k","n","o","w","n">>
nameTab == <<"A","n","n","\t","L","e","e">>
nameLead == <<" ","M","a","x">>
nameTwoSpaces == <<"E","v","a"," "," ","R","o","e">>

NewstateEvents ==
    { Event("Newstate",
            ("ChannelStateDesc" :> st) @@ ("Context" :> ctx) @@ ("Channel" :> ch)
            @@ ("Exten" :> ext) @@ ("CallerIDNum" :> num) @@ ("Uniqueid" :> uidA)
            @@ ("ConnectedLineName" :> cln) @@ ("CallerIDName" :> cin)) :
        st \in {sRing, sUp, sDown},
        ctx \in {sFromTrunk, sFromInternal},
        ch \in {chanSipgate, chanExact, chanShort, chanShifted, chanOther},
        ext \in {<<>>, ext100, ext1234, ext12345, ext123456, valInject},
        num \in {numA, valInject},
        cln \in {nameJaneDoe, sUnknown, nameUnknownPlain, nameJane, <<>>, nameTab},
        cin \in {nameJaneDoe, nameJane, nameTab, nameLead} }

HangupEvents ==
    { Event("Hangup", ("Context" :> ctx) @@ ("Uniqueid" :> uid) @@ ("CallerIDNum" :> num)
            @@ ("Channel" :> chanSipgate)) :
        ctx \in {sFromTrunk, sFromInternal, sDown},
        uid \in {uidA, uidB},
        num \in {numA, numQuote, valInject} }

TransferEvents ==
    { Event("AttendedTransfer",
            ctx @@ ("Uniqueid" :> uidB) @@ ("TransfereeUniqueid" :> uidA)
            @@ ("TransferTargetCallerIDName" :> name)) :
        ctx \in {NoKeys, "Context" :> sFromTrunk, "Context" :> sFromInternal},
        name \in {nameBob, nameJane, nameJaneDoe, nameQuote, nameTab, nameLead,
                  nameTwoSpaces, <<>>} }

\* Newstate events that lack a field some rule tests
PartialEvents ==
    { Event("Newstate", [f \in DOMAIN keys \ {g} |-> keys[f]]) :
        g \in {"ChannelStateDesc", "Context", "Channel", "Exten"},
        keys \in { ("ChannelStateDesc" :> st) @@ ("Context" :> ctx)
                   @@ ("Channel" :> chanSipgate) @@ ("Exten" :> ext12345)
                   @@ ("CallerIDNum" :> numA) @@ ("Uniqueid" :> uidA)
                   @@ ("ConnectedLineName" :> nameJaneDoe)
                   @@ ("CallerIDName" :> nameJaneDoe) :
                     st \in {sRing, sUp}, ctx \in {sFromTrunk, sFromInternal} } }

HandlerEvents ==
    NewstateEvents \cup HangupEvents \cup TransferEvents \cup PartialEvents
    \cup SessionEvents

HandlerInit ==
    /\ mainpc = "idle"
    /\ response = "success"
    /\ listeners = RegistrationOrder
    /\ lpc = "dispatching"
    /\ cur \in HandlerEvents
    /\ idx = 1
    /\ invoked = NoCalls
    /\ produced = 0
    /\ nEvents = 1
    /\ queue = <<>>
    /\ running = {}
    /\ nSent = 0
    /\ posted = <<>>
    /\ result = [i \in {} |-> ""]

HandlerNext ==
    \/ ListenerSkips
    \/ HandlerSends
    \/ HandlerRaises
    \/ DispatchDone

HandlerSpec == HandlerInit /\ [][HandlerNext]_vars

(***************************************************************************)
(* Properties of the handlers' output.                                     *)
(***************************************************************************)
\* the first word of a name: its longest prefix without a space
FirstWord(name) ==
    CHOOSE p \in {SubSeq(name, 1, n) : n \in 0..Len(name)} :
        /\ \A i \in 1..Len(p) : p[i] # " "
        /\ Len(p) = Len(name) \/ name[Len(p) + 1] = " "

IsKind(event, name, state, context) ==
    /\ event.name = name
    /\ Has(event, {"ChannelStateDesc", "Context"})
    /\ event.keys["ChannelStateDesc"] = state
    /\ event.keys["Context"] = context

\* a value that reads back from between two quotes as itself
Plain(v) == \A i \in 1..Len(v) : v[i] \notin {"\"", "\\", "\t", "\n", "\r"}

PlainFields(event, fields) ==
    /\ Has(event, fields)
    /\ \A f \in fields : Plain(event.keys[f])

\* the notifications the dispatch of cur has sent
Notifications == [k \in 1..Len(queue) |-> queue[k][2]]

AcceptedFields(event) ==
    {<<kEvent, vAcceptedCall>>, <<kCallid, event.keys["Uniqueid"]>>,
     <<kRemote, event.keys["CallerIDNum"]>>, <<kDialed, event.keys["Exten"]>>}
    \cup (IF event.keys["ConnectedLineName"] = sUnknown THEN {}
          ELSE {<<kUser, lower(FirstWord(event.keys["ConnectedLineName"]))>>})

AcceptedInputs == {"Uniqueid", "CallerIDNum", "Exten", "ConnectedLineName"}

\* C8: a Newstate event with ChannelStateDesc "Up" and Context "from-trunk"
\* yields one notification, the object with event "Accepted Call", callid
\* Uniqueid, remote CallerIDNum, dialed Exten and, unless ConnectedLineName is
\* "<unknown>", user the lower-cased first word of ConnectedLineName; it has a
\* user member exactly when ConnectedLineName is not "<unknown>".
C8_AcceptedCallPayload ==
    (DispatchComplete /\ IsKind(cur, "Newstate", sUp, sFromTrunk)
       /\ Has(cur, AcceptedInputs)) =>
        /\ Len(Notifications) = 1
        /\ IsPayload(Notifications[1], AcceptedFields(cur))
        /\ HasMember(Notifications[1], kUser)
             <=> cur.keys["ConnectedLineName"] # sUnknown

\* the same, for events whose values hold no quote, backslash or control
\* character
AcceptedCallPayloadOnPlainValues ==
    (DispatchComplete /\ IsKind(cur, "Newstate", sUp, sFromTrunk)
       /\ PlainFields(cur, AcceptedInputs)) =>
        /\ Len(Notifications) = 1
        /\ IsPayload(Notifications[1], AcceptedFields(cur))
        /\ HasMember(Notifications[1], kUser)
             <=> cur.keys["ConnectedLineName"] # sUnknown

OutgoingFields(event) ==
    {<<kEvent, vOutgoingCall>>, <<kCallid, event.keys["Uniqueid"]>>,
     <<kRemote, event.keys["Exten"]>>,
     <<kUser, lower(FirstWord(event.keys["CallerIDName"]))>>}

OutgoingInputs == {"Uniqueid", "Exten", "CallerIDName"}

IsOutgoing(s) ==
    LET p == ParseObject(s)
    IN  p.ok /\ <<kEvent, vOutgoingCall>> \in Range(p.members)

\* C9: a Newstate event with ChannelStateDesc "Ring" and Context
\* "from-internal" yields no Outgoing Call notification when its Exten has
\* fewer than five characters, and exactly one when it has five or more: the
\* object with event "Outgoing Call", callid Uniqueid, remote Exten and user
\* the lower-cased first word of CallerIDName.
C9_OutgoingCallPayload ==
    (DispatchComplete /\ IsKind(cur, "Newstate", sRing, sFromInternal)
       /\ Has(cur, OutgoingInputs)) =>
        IF Len(cur.keys["Exten"]) >= 5
        THEN /\ Len(Notifications) = 1
             /\ IsPayload(Notifications[1], OutgoingFields(cur))
        ELSE \A k \in 1..Len(Notifications) : ~IsOutgoing(Notifications[k])

OutgoingCallPayloadOnPlainValues ==
    (DispatchComplete /\ IsKind(cur, "Newstate", sRing, sFromInternal)
       /\ PlainFields(cur, OutgoingInputs)) =>
        IF Len(cur.keys["Exten"]) >= 5
        THEN /\ Len(Notifications) = 1
             /\ IsPayload(Notifications[1], OutgoingFields(cur))
        ELSE Notifications = <<>>

IncomingFields(event) ==
    {<<kEvent, vIncomingCall>>, <<kRemote, event.keys["CallerIDNum"]>>,
     <<kCallid, event.keys["Uniqueid"]>>, <<kDialed, event.keys["Exten"]>>}

IncomingInputs == {"CallerIDNum", "Uniqueid", "Exten"}

HangupFields(event) ==
    {<<kEvent, vHangup>>, <<kCallid, event.keys["Uniqueid"]>>,
     <<kRemote, event.keys["CallerIDNum"]>>}

HangupInputs == {"Uniqueid", "CallerIDNum"}

BeginsWithPrefix(event) ==
    /\ Has(event, {"Channel"})
    /\ \E n \in 0..Len(event.keys["Channel"]) :
          SubSeq(event.keys["Channel"], 1, n) = sProviderPrefix

\* C10: a Newstate event with ChannelStateDesc "Ring", Context "from-trunk"
\* and a Channel that begins with "SIP/Sipgate_-2615510" yields exactly the
\* object with event "Incoming Call", remote CallerIDNum, callid Uniqueid,
\* dialed Exten; a Hangup event with Context "from-trunk" yields exactly the
\* object with event "Hangup", callid Uniqueid, remote CallerIDNum; a
\* Ring/from-trunk event whose Channel does not begin with the prefix and a
\* Hangup event in another context yield nothing.
C10_IncomingAndHangupPayload ==
    DispatchComplete =>
        /\ (IsKind(cur, "Newstate", sRing, sFromTrunk) /\ BeginsWithPrefix(cur)
              /\ Has(cur, IncomingInputs)) =>
               /\ Len(Notifications) = 1
               /\ IsPayload(Notifications[1], IncomingFields(cur))
        /\ (cur.name = "Hangup" /\ Has(cur, {"Context"})
              /\ cur.keys["Context"] = sFromTrunk /\ Has(cur, HangupInputs)) =>
               /\ Len(Notifications) = 1
               /\ IsPayload(Notifications[1], HangupFields(cur))
        /\ (IsKind(cur, "Newstate", sRing, sFromTrunk) /\ ~BeginsWithPrefix(cur)) =>
               Notifications = <<>>
        /\ (cur.name = "Hangup" /\ Has(cur, {"Context"})
              /\ cur.keys["Context"] # sFromTrunk) =>
               Notifications = <<>>

IncomingAndHangupPayloadOnPlainValues ==
    DispatchComplete =>
        /\ (IsKind(cur, "Newstate", sRing, sFromTrunk) /\ BeginsWithPrefix(cur)
              /\ PlainFields(cur, IncomingInputs)) =>
               /\ Len(Notifications) = 1
               /\ IsPayload(Notifications[1], IncomingFields(cur))
        /\ (cur.name = "Hangup" /\ Has(cur, {"Context"})
              /\ cur.keys["Context"] = sFromTrunk /\ PlainFields(cur, HangupInputs)) =>
               /\ Len(Notifications) = 1
               /\ IsPayload(Notifications[1], HangupFields(cur))
        /\ (IsKind(cur, "Newstate", sRing, sFromTrunk) /\ ~BeginsWithPrefix(cur)) =>
               Notifications = <<>>
        /\ (cur.name = "Hangup" /\ Has(cur, {"Context"})
              /\ cur.keys["Context"] # sFromTrunk) =>
               Notifications = <<>>

TransferFields(event) ==
    {<<kEvent, vTransferCall>>, <<kCallid, event.keys["TransfereeUniqueid"]>>,
     <<kNewuser, lower(FirstWord(event.keys["TransferTargetCallerIDName"]))>>}

TransferInputs == {"TransfereeUniqueid", "TransferTargetCallerIDName"}

\* C11: an AttendedTransfer event, whatever its Context, yields exactly one
\* notification, the object with event "Transfer Call", callid
\* TransfereeUniqueid and newuser the lower-cased first word of
\* TransferTargetCallerIDName.
C11_TransferPayload ==
    (DispatchComplete /\ cur.name = "AttendedTransfer" /\ Has(cur, TransferInputs)) =>
        /\ Len(Notifications) = 1
        /\ IsPayload(Notifications[1], TransferFields(cur))

TransferPayloadOnPlainValues ==
    (DispatchComplete /\ cur.name = "AttendedTransfer"
       /\ PlainFields(cur, TransferInputs)) =>
        /\ Len(Notifications) = 1
        /\ IsPayload(Notifications[1], TransferFields(cur))

Whitespace == {" ", "\t", "\n", "\r", "\f"}

\* the leading token of a name split on its first run of whitespace: its
\* longest prefix without a whitespace character
LeadingToken(name) ==
    CHOOSE p \in {SubSeq(name, 1, n) : n \in 0..Len(name)} :
        /\ \A i \in 1..Len(p) : p[i] \notin Whitespace
        /\ Len(p) = Len(name) \/ name[Len(p) + 1] \in Whitespace

\* C12: in the notifications of the outgoing-call, accepted-call and transfer
\* handlers the user (newuser) value is the lower-cased leading token of the
\* name split on its first run of whitespace, any whitespace character
\* counting; the whole name lower-cased when it is empty or has no whitespace.
C12_UserIsLeadingToken ==
    DispatchComplete =>
        /\ (IsKind(cur, "Newstate", sRing, sFromInternal) /\ Has(cur, OutgoingInputs)
              /\ Len(cur.keys["Exten"]) >= 5) =>
               Notifications =
                 << fmtOutgoing1 \o cur.keys["Uniqueid"] \o fmtRemote \o cur.keys["Exten"]
                    \o fmtUser \o lower(LeadingToken(cur.keys["CallerIDName"]))
                    \o fmtEnd >>
        /\ (IsKind(cur, "Newstate", sUp, sFromTrunk) /\ Has(cur, AcceptedInputs)
              /\ cur.keys["ConnectedLineName"] # sUnknown) =>
               Notifications =
                 << fmtAccept1 \o cur.keys["Uniqueid"] \o fmtRemote
                    \o cur.keys["CallerIDNum"] \o fmtDialed \o cur.keys["Exten"]
                    \o fmtUser \o lower(LeadingToken(cur.keys["ConnectedLineName"]))
                    \o fmtEnd >>
        /\ (cur.name = "AttendedTransfer" /\ Has(cur, TransferInputs)) =>
               Notifications =
                 << fmtTransfer1 \o cur.keys["TransfereeUniqueid"] \o fmtNewuser
                    \o lower(LeadingToken(cur.keys["TransferTargetCallerIDName"]))
                    \o fmtEnd >>

\* C12, amended: in the notifications of the outgoing-call, accepted-call and
\* transfer handlers the user (newuser) value is the lower-cased text of the
\* name before its first space character, the whole name lower-cased when it
\* holds no space; no other whitespace character splits the name.
C12_UserIsTextBeforeFirstSpace ==
    DispatchComplete =>
        /\ (IsKind(cur, "Newstate", sRing, sFromInternal) /\ Has(cur, OutgoingInputs)
              /\ Len(cur.keys["Exten"]) >= 5) =>
               Notifications =
                 << fmtOutgoing1 \o cur.keys["Uniqueid"] \o fmtRemote \o cur.keys["Exten"]
                    \o fmtUser \o lower(FirstWord(cur.keys["CallerIDName"]))
                    \o fmtEnd >>
        /\ (IsKind(cur, "Newstate", sUp, sFromTrunk) /\ Has(cur, AcceptedInputs)
              /\ cur.keys["ConnectedLineName"] # sUnknown) =>
               Notifications =
                 << fmtAccept1 \o cur.keys["Uniqueid"] \o fmtRemote
                    \o cur.keys["CallerIDNum"] \o fmtDialed \o cur.keys["Exten"]
                    \o fmtUser \o lower(FirstWord(cur.keys["ConnectedLineName"]))
                    \o fmtEnd >>
        /\ (cur.name = "AttendedTransfer" /\ Has(cur, TransferInputs)) =>
               Notifications =
                 << fmtTransfer1 \o cur.keys["TransfereeUniqueid"] \o fmtNewuser
                    \o lower(FirstWord(cur.keys["TransferTargetCallerIDName"]))
                    \o fmtEnd >>

C12_Witness ==
    /\ DispatchComplete
    /\ cur.name = "AttendedTransfer"
    /\ Has(cur, TransferInputs)
    /\ cur.keys["TransferTargetCallerIDName"] = nameTab
    /\ Len(Notifications) = 1

(***************************************************************************)
(* Properties of the handlers as functions, and of startup.                *)
(***************************************************************************)
\* the item the latest send() call submitted, while it is queued or in progress
LatestItems == {item \in Range(queue) \cup running : item[1] = nSent}

PayloadFromEventAlone ==
    (lpc = "dispatching" /\ produced = 1) =>
        \A item \in LatestItems :
            \E h \in Handlers :
                /\ invoked[h] = 1
                /\ ~on_event(h, cur).raised
                /\ item[2] = on_event(h, cur).sent[1]

EventNotModified ==
    (lpc = "dispatching" /\ lpc' # "idle") => cur' = cur

\* C13: the payload a handler sends is determined by the handler and the
\* event alone: in every reachable state, whatever was dispatched before,
\* whatever is queued and however earlier deliveries ended, the string sent
\* for the event being dispatched is the same function of that event, so
\* identical events give identical payloads; and no step of a dispatch changes
\* the event being dispatched.
C13_HandlersPure == []PayloadFromEventAlone /\ [][EventNotModified]_vars

C13_Witness ==
    /\ lpc = "dispatching"
    /\ produced = 1
    /\ \E i \in DOMAIN result : Failure(result[i])
    /\ \E a \in LatestItems, b \in Range(queue) \cup running :
          a[1] # b[1] /\ a[2] = b[2]

Calls == invoked["on_incomming_call"] + invoked["on_outgoing_call"]
         + invoked["on_hangup"] + invoked["on_accept"] + invoked["on_transfer"]

\* C14: an event causes at most one notification: no event satisfies two of
\* the five rules, at most one handler is called for an event and at most one
\* payload is enqueued for it.
C14_AtMostOneNotification ==
    /\ \A g, h \in Handlers : (Satisfies(g, cur) /\ Satisfies(h, cur)) => g = h
    /\ Calls <= 1
    /\ produced <= 1
    /\ Len(queue) <= 1

\* an event that satisfies a rule and meets, save for one, the conditions of
\* another rule has been dispatched and has sent one notification
C14_Witness ==
    /\ DispatchComplete
    /\ produced = 1
    /\ Len(queue) = 1
    /\ IsKind(cur, "Newstate", sRing, sFromTrunk)
    /\ Satisfies("on_incomming_call", cur)
    /\ Has(cur, {"Exten"}) /\ Len(cur.keys["Exten"]) >= 5

\* C15: every event the session delivers after a successful login is
\* dispatched against the complete table of the five rules in registration
\* order, never against an empty or partly registered one.
C15_CompleteTableAtDispatch ==
    (response = "success" /\ lpc \in {"dispatching", "dead"}) =>
        listeners = RegistrationOrder

\* C16: when the login response is an error the main thread ends before any
\* rule is registered and before the idle loop: the rule table stays empty,
\* no handler is ever called and nothing is ever enqueued or posted, whatever
\* events the receive thread still gets.
C16_LoginErrorIsFatal ==
    response = "error" =>
        /\ mainpc = "aborted"
        /\ listeners = <<>>
        /\ Calls = 0
        /\ nSent = 0
        /\ queue = <<>> /\ running = {} /\ posted = <<>>

C16_Witness ==
    /\ response = "error"
    /\ mainpc = "aborted"
    /\ DispatchComplete
    /\ Satisfies("on_hangup", cur)
    /\ nEvents = 2

(***************************************************************************)
(* Properties of the queue.                                                *)
(***************************************************************************)
\* every payload ever submitted is queued, in progress or attempted, and
\* queued once
NothingShed ==
    /\ Ids(Range(queue)) \cup Ids(running) \cup DOMAIN result = 1..nSent
    /\ Cardinality(Ids(Range(queue))) = Len(queue)

\* a handler that is about to send can do so, whatever is pending
SendAlwaysAccepted ==
    (/\ lpc = "dispatching"
     /\ idx <= Len(listeners)
     /\ listener_accepts(listeners[idx], cur)
     /\ ~on_event(listeners[idx], cur).raised) => ENABLED HandlerSends

\* a queued item stays queued as it is, or goes to the worker
LeavesQueueOnlyToWorker ==
    \A item \in Range(queue) : item \in Range(queue') \/ item \in running'

\* C17: send() accepts every payload however many are pending, no queued
\* payload is dropped, rejected or overwritten, and a payload leaves the queue
\* only by being handed to the worker; so while one delivery is stuck the
\* queue holds every payload sent since, as many as there are events.
C17_NoBackPressureNoShedding ==
    [](NothingShed /\ SendAlwaysAccepted) /\ [][LeavesQueueOnlyToWorker]_vars

C17_Witness ==
    /\ Ids(running) = {1}
    /\ result = [i \in {} |-> ""]
    /\ Len(queue) = MaxEvents - 1
    /\ nEvents = MaxEvents

(***************************************************************************)
(* Progress of delivery.  The pool's worker thread runs whenever it has    *)
(* something to do, and here every requests.post ends.                     *)
(***************************************************************************)
PostEnds == \E item \in running, o \in PostOutcomes : WorkerFinish(item, o)

FairSpec == Spec /\ WF_vars(WorkerStart) /\ WF_vars(PostEnds)

EventuallyAttempted ==
    \A i \in 1..MaxEvents : (nSent >= i) ~> (i \in Range(posted))

AttemptedOnce ==
    \A j, k \in 1..Len(posted) : posted[j] = posted[k] => j = k

\* while the post in progress has not ended, no other payload is posted
NoPostWhileOneIsPending ==
    (running # {} /\ running \subseteq running') => posted' = posted

\* C18: with a fair worker and every requests.post ending, every payload
\* handed to send() is eventually attempted, once, also after failed
\* deliveries; and for as long as one post has not ended no later payload is
\* attempted.
C18_EveryPayloadAttempted ==
    /\ EventuallyAttempted
    /\ []AttemptedOnce
    /\ [][NoPostWhileOneIsPending]_vars

\* every payload sent has been attempted although the first attempts failed
C18_Witness ==
    /\ nSent = MaxEvents
    /\ DOMAIN result = 1..nSent
    /\ \A i \in 1..(nSent - 1) : Failure(result[i])
    /\ result[nSent] = "2xx"

====
